---- MODULE Spec2Model ----
(***************************************************************************)
(* Model of the formula tree engine (formula_manager.py, FormulaManager).  *)
(* The engine state is the node list _formulas, the daily-addition date    *)
(* last_addition_date and the per-root cursor map active_tree_progress.    *)
(* Calendar dates are day ordinals of the year 2024; the ISO text that the *)
(* code stores in last_active_time is the triple <<year, month, day>>.     *)
(* Around the engine: get_manager of formula_singleton.py, the constructor *)
(* and the reservation / task timers of ChainDelayProtocol (main.py), one  *)
(* step per access to a field shared between threads, and the add, status  *)
(* and delete buttons of the formula window (ui_main.py).                  *)
(***************************************************************************)
EXTENDS Integers, Sequences, FiniteSets, TLC

VARIABLES formulas, last_addition_date, active_tree_progress, today, op, top_given

\* the engine's persistence callback and the singleton of formula_singleton.py
VARIABLES data_callback, _instance

\* the dialog that the formula window of ui_main.py showed last
VARIABLES messagebox

\* ChainDelayProtocol of main.py: the fields of self.data that the timers
\* and the chain operations use, the runtime fields, the clock and the
\* threads (threads[1] is the thread of the user interface, the others are
\* the timer threads in the order they were started); completed counts, for
\* every task started, how often the completion effects were performed
VARIABLES task_chain, longest_chain, task_history,
          reservation_active, reservation_end_time, task_active, task_end_time,
          timer_thread, now, threads, completed

engine == <<formulas, last_addition_date, active_tree_progress>>

singleton == <<data_callback, _instance>>

protocol == <<task_chain, longest_chain, task_history,
              reservation_active, reservation_end_time, task_active, task_end_time,
              timer_thread, now, threads, completed>>

\* everything outside the engine
shell == <<singleton, messagebox, protocol>>

vars == <<formulas, last_addition_date, active_tree_progress, today, op, top_given, shell>>

----------------------------------------------------------------------------
(* Bounds of the model *)

MaxDay == 1        \* number of midnights the clock may pass
MaxNodes == 4      \* add_formula is explored while the forest is smaller

MaxTimers == 2     \* timer threads started by start_reservation and start_task
MaxClock == 1      \* minutes the clock of the protocol may pass

----------------------------------------------------------------------------
(* Values *)

None == -1                     \* Python None where an id or a date is expected
NoDate == <<>>                 \* Python None where ISO text is expected
ACTIVE == "active"             \* status "活跃"
INACTIVE == "inactive"         \* status "未执行"

Day0 == 59                     \* the day the engine is constructed: 2024-02-28

\* date.isoformat(): day ordinal (1 = 2024-01-01) to <<year, month, day>>
MonthStart == <<0, 31, 60, 91, 121, 152, 182, 213, 244, 274, 305, 335, 366>>

MonthOf(d) == CHOOSE m \in 1..12 : MonthStart[m] < d /\ d <= MonthStart[m + 1]

isoformat(d) == <<2024, MonthOf(d), d - MonthStart[MonthOf(d)]>>

\* date.fromisoformat(): <<year, month, day>> back to the day ordinal
fromisoformat(s) == MonthStart[s[2]] + s[3]

\* str.strip() on a name given as a sequence of characters
RECURSIVE lstrip(_)
lstrip(s) == IF s = <<>> THEN <<>>
             ELSE IF Head(s) = " " THEN lstrip(Tail(s)) ELSE s

RECURSIVE rstrip(_)
rstrip(s) == IF s = <<>> THEN <<>>
             ELSE IF s[Len(s)] = " " THEN rstrip(SubSeq(s, 1, Len(s) - 1)) ELSE s

strip(s) == rstrip(lstrip(s))

InSeq(x, s) == \E i \in 1..Len(s) : s[i] = x

RECURSIVE MaxOf(_)
MaxOf(S) == IF S = {} THEN 0
            ELSE LET x == CHOOSE y \in S : TRUE
                     m == MaxOf(S \ {x})
                 IN IF x > m THEN x ELSE m

----------------------------------------------------------------------------
(* Construction *)

\* op is the latest call: its name, the value it returned and the number of
\* times it invoked the persistence callback.  top_given is the id assigned
\* by the latest successful add_formula, 0 before the first.

_load_default_formulas ==
    << [id |-> 1, name |-> <<"A">>, parent |-> None, children |-> <<2, 3>>,
        status |-> ACTIVE, last_active_time |-> isoformat(Day0)],
       [id |-> 2, name |-> <<"B">>, parent |-> 1, children |-> <<4>>,
        status |-> ACTIVE, last_active_time |-> isoformat(Day0)],
       [id |-> 3, name |-> <<"C">>, parent |-> 1, children |-> <<>>,
        status |-> INACTIVE, last_active_time |-> NoDate],
       [id |-> 4, name |-> <<"D">>, parent |-> 2, children |-> <<>>,
        status |-> INACTIVE, last_active_time |-> NoDate] >>

EmptyProgress == [k \in {} |-> 0]

\* no dialog of the formula window has been shown
NoDialog == <<"none">>

Init ==
    /\ formulas = _load_default_formulas
    /\ last_addition_date = None
    /\ active_tree_progress = EmptyProgress
    /\ today = Day0
    /\ op = [name |-> "init", ret |-> TRUE, saved |-> 0]
    /\ top_given = 0
    /\ data_callback = "callback"
    /\ _instance = None
    /\ messagebox = NoDialog
    /\ task_chain = <<>>
    /\ longest_chain = 0
    /\ task_history = <<>>
    /\ reservation_active = FALSE
    /\ reservation_end_time = None
    /\ task_active = FALSE
    /\ task_end_time = None
    /\ timer_thread = None
    /\ now = 0
    /\ threads = <<>>
    /\ completed = <<>>

----------------------------------------------------------------------------
(* Queries *)

ids(F) == {F[i].id : i \in 1..Len(F)}

\* get_formula_by_id: position of the first node with that id, 0 for None
get_formula_by_id(F, formula_id) ==
    IF \E i \in 1..Len(F) : F[i].id = formula_id
    THEN CHOOSE i \in 1..Len(F) :
            /\ F[i].id = formula_id
            /\ \A j \in 1..(i - 1) : F[j].id # formula_id
    ELSE 0

get_children_formulas(F, parent_id) ==
    SelectSeq(F, LAMBDA f : f.parent = parent_id)

\* the inner loop of get_nodes_at_level: the children of every frontier node
RECURSIVE next_level_nodes(_, _)
next_level_nodes(F, nodes) ==
    IF nodes = <<>> THEN <<>>
    ELSE get_children_formulas(F, Head(nodes).id) \o next_level_nodes(F, Tail(nodes))

\* the outer loop of get_nodes_at_level: range(level) expansions
RECURSIVE expand_levels(_, _, _)
expand_levels(F, nodes, n) ==
    IF n = 0 THEN nodes
    ELSE IF nodes = <<>> THEN <<>>
    ELSE expand_levels(F, next_level_nodes(F, nodes), n - 1)

\* a slip: one expansion too many, range(level + 1)
get_nodes_at_level_deeper(F, root_id, level) ==
    IF level < 0 THEN <<>>
    ELSE LET r == get_formula_by_id(F, root_id)
         IN IF r = 0 THEN <<>> ELSE expand_levels(F, <<F[r]>>, level + 1)

\* When the root is missing the code starts from [None]: None has no
\* children and is filtered out of the result, so every level is empty.
get_nodes_at_level(F, root_id, level) ==
    IF level < 0 THEN <<>>
    ELSE LET r == get_formula_by_id(F, root_id)
         IN IF r = 0 THEN <<>> ELSE expand_levels(F, <<F[r]>>, level)

----------------------------------------------------------------------------
(* add_formula *)

\* Python truthiness of parent_id in "if parent_id and ..." / "if parent_id:"
parent_given(parent_id) == parent_id # None /\ parent_id # 0

\* a slip: the next id taken from the length of the list
new_id_by_count(F) == Len(F) + 1

new_id(F) == MaxOf(ids(F)) + 1

\* a slip: the name is stored as it was typed
new_formula_untrimmed(F, name, parent_id) ==
    [id |-> new_id(F), name |-> name, parent |-> parent_id,
     children |-> <<>>, status |-> INACTIVE, last_active_time |-> NoDate]

new_formula(F, name, parent_id) ==
    [id |-> new_id(F), name |-> strip(name), parent |-> parent_id,
     children |-> <<>>, status |-> INACTIVE, last_active_time |-> NoDate]

\* a slip: the parent's children list is left alone
register_child_skipped(F, parent_id, nid) == F

\* the loop that appends new_id to the first node whose id is parent_id
register_child(F, parent_id, nid) ==
    IF parent_given(parent_id)
    THEN LET p == get_formula_by_id(F, parent_id)
         IN [i \in 1..Len(F) |->
                IF i = p THEN [F[i] EXCEPT !.children = Append(@, nid)] ELSE F[i]]
    ELSE F

\* a slip: the daily gate is not consulted
add_error_ungated(name, parent_id) ==
    IF strip(name) = <<>> THEN "empty_name"
    ELSE IF parent_given(parent_id) /\ ~(\E i \in 1..Len(formulas) : formulas[i].id = parent_id)
         THEN "no_parent"
    ELSE "ok"

add_error(name, parent_id) ==
    IF last_addition_date = today THEN "already_added_today"
    ELSE IF strip(name) = <<>> THEN "empty_name"
    ELSE IF parent_given(parent_id) /\ ~(\E i \in 1..Len(formulas) : formulas[i].id = parent_id)
         THEN "no_parent"
    ELSE "ok"

\* the body of add_formula
add_formula_call(name, parent_id) ==
    /\ today' = today
    /\ IF add_error(name, parent_id) # "ok"
       THEN /\ op' = [name |-> "add_formula", ret |-> <<FALSE, <<add_error(name, parent_id)>> >>, saved |-> 0]
            /\ UNCHANGED <<engine, top_given>>
       ELSE /\ top_given' = new_id(formulas)
            /\ formulas' = Append(register_child(formulas, parent_id, new_id(formulas)),
                                  new_formula(formulas, name, parent_id))
            /\ last_addition_date' = today
            /\ UNCHANGED active_tree_progress
            /\ op' = [name |-> "add_formula", ret |-> <<TRUE, <<"added", strip(name)>> >>, saved |-> 1]

\* add_formula, explored while the forest has fewer than MaxNodes nodes
add_formula(name, parent_id) ==
    /\ Len(formulas) < MaxNodes
    /\ add_formula_call(name, parent_id)

----------------------------------------------------------------------------
(* remove_formula *)

RECURSIVE get_descendants(_, _)
RECURSIVE descendants_from(_, _, _)

\* the for loop of get_descendants, from position i of the node list on
descendants_from(F, node_id, i) ==
    IF i > Len(F) THEN <<>>
    ELSE (IF F[i].parent = node_id THEN get_descendants(F, F[i].id) ELSE <<>>)
         \o descendants_from(F, node_id, i + 1)

get_descendants(F, node_id) == <<node_id>> \o descendants_from(F, node_id, 1)

deleted_names(F, to_delete) ==
    LET hit == SelectSeq(F, LAMBDA f : InSeq(f.id, to_delete))
    IN [i \in 1..Len(hit) |-> hit[i].name]

\* a slip: the children lists of the surviving nodes are not filtered
remove_nodes_unstripped(F, to_delete) ==
    SelectSeq(F, LAMBDA f : ~InSeq(f.id, to_delete))

\* the two list comprehensions of a confirmed removal
remove_nodes(F, to_delete) ==
    LET kept == SelectSeq(F, LAMBDA f : ~InSeq(f.id, to_delete))
    IN [i \in 1..Len(kept) |->
           [kept[i] EXCEPT !.children = SelectSeq(@, LAMBDA c : ~InSeq(c, to_delete))]]

\* a slip: the confirm flag is not consulted
dry_run_ignored(names, confirm) ==
    IF names = <<>> THEN "none" ELSE "commit"

\* the two early returns of remove_formula
dry_run(names, confirm) ==
    IF names = <<>> THEN "none"
    ELSE IF confirm = FALSE THEN "preview"
    ELSE "commit"

remove_formula(formula_id, confirm) ==
    LET to_delete == get_descendants(formulas, formula_id)
        names == deleted_names(formulas, to_delete)
    IN /\ UNCHANGED <<today, top_given>>
       /\ IF dry_run(names, confirm) = "none"
          THEN /\ op' = [name |-> "remove_formula", ret |-> <<FALSE, <<>> >>, saved |-> 0]
               /\ UNCHANGED engine
          ELSE IF dry_run(names, confirm) = "preview"
          THEN /\ op' = [name |-> "remove_formula", ret |-> <<TRUE, names>>, saved |-> 0]
               /\ UNCHANGED engine
          ELSE /\ formulas' = remove_nodes(formulas, to_delete)
               /\ UNCHANGED <<last_addition_date, active_tree_progress>>
               /\ op' = [name |-> "remove_formula", ret |-> <<TRUE, names>>, saved |-> 1]

----------------------------------------------------------------------------
(* execute_next_level *)

tracked(root_id) == root_id \in DOMAIN active_tree_progress

set_progress(P, root_id, level) ==
    [k \in DOMAIN P \cup {root_id} |-> IF k = root_id THEN level ELSE P[k]]

del_progress(P, root_id) == [k \in DOMAIN P \ {root_id} |-> P[k]]

\* a slip: the test looks at the current level instead of the next one
next_level_late(F, P, root_id) ==
    IF get_nodes_at_level(F, root_id, P[root_id]) = <<>> THEN 0 ELSE P[root_id] + 1

\* a slip: the level is never wrapped back to 0
next_level_unwrapped(F, P, root_id) == P[root_id] + 1

\* the level stored by execute_next_level for a tracked root
next_level(F, P, root_id) ==
    IF get_nodes_at_level(F, root_id, P[root_id] + 1) = <<>> THEN 0 ELSE P[root_id] + 1

\* the value returned by execute_next_level for a tracked root
cycle_done(F, P, root_id) == get_nodes_at_level(F, root_id, P[root_id] + 1) = <<>>

\* the calls of execute_next_level made in a row for one root since a call
\* that found its stored level at 0: <<returned value, level stored>> each
next_calls(root_id, ret, level) ==
    IF active_tree_progress[root_id] = 0
    THEN << <<ret, level>> >>
    ELSE IF op.name = "execute_next_level" /\ op.root = root_id /\ op.calls # <<>>
         THEN Append(op.calls, <<ret, level>>)
         ELSE <<>>

\* a slip: a root that is not tracked is entered into the map at level 0
execute_next_level_started(root_id) ==
    /\ UNCHANGED <<today, top_given>>
    /\ UNCHANGED <<formulas, last_addition_date>>
    /\ IF ~tracked(root_id)
       THEN /\ active_tree_progress' = set_progress(active_tree_progress, root_id, 0)
            /\ op' = [name |-> "execute_next_level", ret |-> FALSE, saved |-> 1,
                      root |-> None, calls |-> <<>>]
       ELSE LET lvl == next_level(formulas, active_tree_progress, root_id)
                done == cycle_done(formulas, active_tree_progress, root_id)
            IN /\ active_tree_progress' = set_progress(active_tree_progress, root_id, lvl)
               /\ op' = [name |-> "execute_next_level", ret |-> done, saved |-> 1,
                         root |-> root_id, calls |-> next_calls(root_id, done, lvl)]

execute_next_level(root_id) ==
    /\ UNCHANGED <<today, top_given>>
    /\ UNCHANGED <<formulas, last_addition_date>>
    /\ IF ~tracked(root_id)
       THEN /\ UNCHANGED active_tree_progress
            /\ op' = [name |-> "execute_next_level", ret |-> FALSE, saved |-> 0,
                      root |-> None, calls |-> <<>>]
       ELSE LET lvl == next_level(formulas, active_tree_progress, root_id)
                done == cycle_done(formulas, active_tree_progress, root_id)
            IN /\ active_tree_progress' = set_progress(active_tree_progress, root_id, lvl)
               /\ op' = [name |-> "execute_next_level", ret |-> done, saved |-> 1,
                         root |-> root_id, calls |-> next_calls(root_id, done, lvl)]

----------------------------------------------------------------------------
(* change_formula_status, update_formula_name *)

\* a slip: switching a node off forgets when it was last switched on
toggle_node_clearing(f, day) ==
    IF f.status = ACTIVE
    THEN [f EXCEPT !.status = INACTIVE, !.last_active_time = NoDate]
    ELSE [f EXCEPT !.status = ACTIVE, !.last_active_time = isoformat(day)]

toggle_node(f, day) ==
    IF f.status = ACTIVE
    THEN [f EXCEPT !.status = INACTIVE]
    ELSE [f EXCEPT !.status = ACTIVE, !.last_active_time = isoformat(day)]

\* a slip: an entry that is already there is kept as it is
toggle_progress_kept(P, f) ==
    IF f.parent # None THEN P
    ELSE IF f.status = ACTIVE
         THEN (IF f.id \in DOMAIN P THEN del_progress(P, f.id) ELSE P)
         ELSE IF f.id \in DOMAIN P THEN P ELSE set_progress(P, f.id, 0)

toggle_progress(P, f) ==
    IF f.parent # None THEN P
    ELSE IF f.status = ACTIVE
         THEN (IF f.id \in DOMAIN P THEN del_progress(P, f.id) ELSE P)
         ELSE set_progress(P, f.id, 0)

change_formula_status(formula_id) ==
    LET i == get_formula_by_id(formulas, formula_id)
    IN /\ UNCHANGED <<today, top_given, last_addition_date>>
       /\ IF i # 0
          THEN /\ formulas' = [formulas EXCEPT ![i] = toggle_node(@, today)]
               /\ active_tree_progress' = toggle_progress(active_tree_progress, formulas[i])
               /\ op' = [name |-> "change_formula_status", ret |-> TRUE, saved |-> 1]
          ELSE /\ UNCHANGED <<formulas, active_tree_progress>>
               /\ op' = [name |-> "change_formula_status", ret |-> FALSE, saved |-> 0]

update_formula_name(formula_id, new_name) ==
    LET i == get_formula_by_id(formulas, formula_id)
    IN /\ UNCHANGED <<today, top_given, last_addition_date, active_tree_progress>>
       /\ IF strip(new_name) # <<>> /\ i # 0
          THEN /\ formulas' = [formulas EXCEPT ![i].name = strip(new_name)]
               /\ op' = [name |-> "update_formula_name", ret |-> TRUE, saved |-> 1]
          ELSE /\ UNCHANGED formulas
               /\ op' = [name |-> "update_formula_name", ret |-> FALSE, saved |-> 0]

----------------------------------------------------------------------------
(* clear_all_formulas, export_formulas, import_formulas *)

\* a slip: the list is emptied and _save_data is not called
clear_all_formulas_unsaved ==
    /\ formulas' = <<>>
    /\ UNCHANGED <<last_addition_date, active_tree_progress, today, top_given>>
    /\ op' = [name |-> "clear_all_formulas", ret |-> TRUE, saved |-> 0]

\* a slip: the clear also forgets the cursors and the daily-addition date
clear_all_formulas_reset ==
    /\ formulas' = <<>>
    /\ active_tree_progress' = EmptyProgress
    /\ last_addition_date' = None
    /\ UNCHANGED <<today, top_given>>
    /\ op' = [name |-> "clear_all_formulas", ret |-> TRUE, saved |-> 1]

clear_all_formulas ==
    /\ formulas' = <<>>
    /\ UNCHANGED <<last_addition_date, active_tree_progress, today, top_given>>
    /\ op' = [name |-> "clear_all_formulas", ret |-> TRUE, saved |-> 1]

\* JSON text is written as its syntax tree: <<"null">>, <<"num", n>>,
\* <<"str", s>>, <<"arr", items>>, <<"obj", fields>>; text that json.loads
\* rejects with JSONDecodeError is Unparsable.
Unparsable == <<"unparsable">>

\* json.dumps of one node dict
dump_node(f) ==
    [id |-> <<"num", f.id>>,
     name |-> <<"str", f.name>>,
     parent |-> IF f.parent = None THEN <<"null">> ELSE <<"num", f.parent>>,
     children |-> <<"arr", [i \in 1..Len(f.children) |-> <<"num", f.children[i]>>]>>,
     status |-> <<"str", f.status>>,
     last_active_time |-> IF f.last_active_time = NoDate THEN <<"null">>
                          ELSE <<"str", f.last_active_time>>]

json_dumps(F) == <<"arr", [i \in 1..Len(F) |-> <<"obj", dump_node(F[i])>>]>>

export_formulas(F) == json_dumps(F)

\* a slip: a JSON null parent is read as the id 0
load_node_null_as_zero(o) ==
    [id |-> o.id[2],
     name |-> o.name[2],
     parent |-> IF o.parent[1] = "null" THEN 0 ELSE o.parent[2],
     children |-> [i \in 1..Len(o.children[2]) |-> o.children[2][i][2]],
     status |-> o.status[2],
     last_active_time |-> IF o.last_active_time[1] = "null" THEN NoDate
                          ELSE o.last_active_time[2]]

\* json.loads of one node object
load_node(o) ==
    [id |-> o.id[2],
     name |-> o.name[2],
     parent |-> IF o.parent[1] = "null" THEN None ELSE o.parent[2],
     children |-> [i \in 1..Len(o.children[2]) |-> o.children[2][i][2]],
     status |-> o.status[2],
     last_active_time |-> IF o.last_active_time[1] = "null" THEN NoDate
                          ELSE o.last_active_time[2]]

\* json.loads of a text that parses: a list of node objects becomes the
\* list of node dicts, any other value stays as it is
json_loads(text) ==
    IF text[1] = "arr"
    THEN [i \in 1..Len(text[2]) |-> load_node(text[2][i][2])]
    ELSE text

\* a slip: whatever parses is taken as the node list
import_error_unchecked(json_data) ==
    IF json_data = Unparsable THEN "JSONDecodeError"
    ELSE "ok"

\* the except clause and the isinstance test of import_formulas
import_error(json_data) ==
    IF json_data = Unparsable THEN "JSONDecodeError"
    ELSE IF json_data[1] # "arr" THEN "not_a_list"
    ELSE "ok"

import_formulas(json_data) ==
    /\ UNCHANGED <<last_addition_date, active_tree_progress, today, top_given>>
    /\ IF import_error(json_data) = "ok"
       THEN /\ formulas' = json_loads(json_data)
            /\ op' = [name |-> "import_formulas", ret |-> TRUE, saved |-> 1]
       ELSE /\ UNCHANGED formulas
            /\ op' = [name |-> "import_formulas", ret |-> FALSE, saved |-> 0]

----------------------------------------------------------------------------
(* set_formulas_data, get_formulas_data *)

\* A snapshot is a dict with some of the keys "formulas",
\* "last_addition_date", "active_tree_progress".  A key of the progress dict
\* is <<"int", n>> or, as json.load leaves it, <<"str", characters>>.

dict_get(data, key, default) == IF key \in DOMAIN data THEN data[key] ELSE default

DigitChars == <<"0", "1", "2", "3", "4", "5", "6", "7", "8", "9">>

is_digits(s) == s # <<>> /\ \A i \in 1..Len(s) : \E d \in 1..10 : DigitChars[d] = s[i]

RECURSIVE digits_value(_)
digits_value(s) ==
    IF s = <<>> THEN 0
    ELSE 10 * digits_value(SubSeq(s, 1, Len(s) - 1))
         + (CHOOSE d \in 0..9 : DigitChars[d + 1] = s[Len(s)])

\* int(k) raises ValueError for a string that is not a number
int_raises(k) == k[1] = "str" /\ ~is_digits(strip(k[2]))

int(k) == IF k[1] = "int" THEN k[2] ELSE digits_value(strip(k[2]))

\* date.fromisoformat raises ValueError for a text that names no day
fromisoformat_raises(s) ==
    ~(/\ s[2] \in 1..12
      /\ s[3] \in 1..(MonthStart[s[2] + 1] - MonthStart[s[2]]))

\* the dict comprehension {int(k): v for k, v in raw_progress.items()}
coerce_progress(raw) ==
    [n \in {int(k) : k \in DOMAIN raw} |-> raw[CHOOSE k \in DOMAIN raw : int(k) = n]]

get_formulas_data ==
    [formulas |-> formulas,
     last_addition_date |-> IF last_addition_date # None THEN isoformat(last_addition_date)
                            ELSE NoDate,
     active_tree_progress |->
         [k \in {<<"int", n>> : n \in DOMAIN active_tree_progress} |->
             active_tree_progress[k[2]]]]

\* The three assignments are made in order; an exception raised by int() or
\* by date.fromisoformat() leaves the call between two of them.
set_formulas_data(data) ==
    LET raw_progress == dict_get(data, "active_tree_progress", EmptyProgress)
        last_date_str == dict_get(data, "last_addition_date", NoDate)
    IN /\ UNCHANGED <<today, top_given>>
       /\ formulas' = dict_get(data, "formulas", <<>>)
       /\ IF \E k \in DOMAIN raw_progress : int_raises(k)
          THEN /\ UNCHANGED <<active_tree_progress, last_addition_date>>
               /\ op' = [name |-> "set_formulas_data", ret |-> "ValueError", saved |-> 0]
          ELSE /\ active_tree_progress' = coerce_progress(raw_progress)
               /\ IF last_date_str = NoDate
                  THEN /\ last_addition_date' = None
                       /\ op' = [name |-> "set_formulas_data", ret |-> "None", saved |-> 0]
                  ELSE IF fromisoformat_raises(last_date_str)
                  THEN /\ UNCHANGED last_addition_date
                       /\ op' = [name |-> "set_formulas_data", ret |-> "ValueError", saved |-> 0]
                  ELSE /\ last_addition_date' = fromisoformat(last_date_str)
                       /\ op' = [name |-> "set_formulas_data", ret |-> "None", saved |-> 0]

----------------------------------------------------------------------------
(* check_inactive_formulas *)

\* a slip: a node activated exactly a week ago counts as well
is_stale_at_a_week(f, day) ==
    /\ f.status = ACTIVE
    /\ f.last_active_time # NoDate
    /\ fromisoformat(f.last_active_time) <= day - 7

\* the test of the loop body, one_week_ago being today - timedelta(days=7)
is_stale(f, day) ==
    /\ f.status = ACTIVE
    /\ f.last_active_time # NoDate
    /\ fromisoformat(f.last_active_time) < day - 7

inactive_formulas(F, day) ==
    LET hit == SelectSeq(F, LAMBDA f : is_stale(f, day))
    IN [i \in 1..Len(hit) |-> hit[i].name]

check_inactive_formulas ==
    /\ UNCHANGED <<engine, today, top_given>>
    /\ op' = [name |-> "check_inactive_formulas",
              ret |-> inactive_formulas(formulas, today), saved |-> 0]

----------------------------------------------------------------------------
(* get_nodes_at_level as a call *)

nodes_at_level(root_id, level) ==
    /\ UNCHANGED <<engine, today, top_given>>
    /\ op' = [name |-> "get_nodes_at_level",
              ret |-> get_nodes_at_level(formulas, root_id, level), saved |-> 0,
              root |-> root_id, level |-> level]

----------------------------------------------------------------------------
(* The calendar: date.today() moves on at midnight *)

Midnight ==
    /\ today < Day0 + MaxDay
    /\ today' = today + 1
    /\ UNCHANGED <<engine, op, top_given, shell>>

\* a week in which the engine is not called
Week ==
    /\ today <= Day0 + MaxDay
    /\ today' = today + 7
    /\ UNCHANGED <<engine, op, top_given, shell>>

----------------------------------------------------------------------------
(* formula_singleton.py: get_manager *)

\* data_callback=None
NoCallback == "None"

\* FormulaManager(data_callback=callback): a new engine
FormulaManager(callback) ==
    /\ formulas' = _load_default_formulas
    /\ last_addition_date' = None
    /\ active_tree_progress' = EmptyProgress
    /\ data_callback' = callback

\* _instance is None before the first call and the number of the engine made
\* by the first call after it
get_manager(callback) ==
    /\ UNCHANGED <<today, top_given, messagebox, protocol>>
    /\ IF _instance = None
       THEN /\ FormulaManager(callback)
            /\ _instance' = 1
       ELSE /\ UNCHANGED <<engine, _instance>>
            /\ data_callback' = IF callback # NoCallback /\ data_callback = NoCallback
                                THEN callback
                                ELSE data_callback
    /\ op' = [name |-> "get_manager", ret |-> _instance', saved |-> 0]

----------------------------------------------------------------------------
(* main.py: ChainDelayProtocol.__init__ on a first run *)

\* the dict that load_data returns when protocol_data.json does not exist
default_data ==
    [task_chain |-> <<>>,
     formulas |-> [formulas |-> <<>>, last_addition_date |-> NoDate],
     settings |-> [reservation_minutes |-> 15, task_minutes |-> 30],
     longest_chain |-> 0,
     task_history |-> <<>>]

load_data == default_data

\* the thread of the user interface between two calls
Idle == [kind |-> "ui", pc |-> "idle", minutes |-> None, length |-> 0]

\* ChainDelayProtocol(): load_data, FormulaManager(data_callback=save_data)
\* (the engine of Init, not called yet), set_formulas_data on the loaded
\* "formulas" entry, then the runtime fields
ChainDelayProtocol ==
    /\ threads = <<>>
    /\ op.name = "init"
    /\ set_formulas_data(dict_get(load_data, "formulas", [k \in {} |-> 0]))
    /\ data_callback' = "save_data"
    /\ task_chain' = load_data.task_chain
    /\ longest_chain' = load_data.longest_chain
    /\ task_history' = load_data.task_history
    /\ reservation_active' = FALSE
    /\ reservation_end_time' = None
    /\ task_active' = FALSE
    /\ task_end_time' = None
    /\ timer_thread' = None
    /\ threads' = <<Idle>>
    /\ completed' = <<>>
    /\ UNCHANGED <<_instance, messagebox, now>>

----------------------------------------------------------------------------
(* main.py: the chain operations and the timer threads *)

\* The operations run on the thread of the user interface, one at a time;
\* every timer thread runs _reservation_timer or _task_timer.  A step is one
\* statement that reads or writes a field the threads share; the pc of a
\* thread is the line of main.py it executes next.  The clock now counts
\* minutes; time.sleep(1) returns within the same minute or a later one.

\* the state outside the protocol
outside == <<engine, today, top_given, singleton, messagebox>>

at(t, line) == t \in 1..Len(threads) /\ threads[t].pc = line

goto(t, line) == [threads EXCEPT ![t].pc = line]

\* the call made by thread t returns: the user interface waits for the
\* next event, a timer thread ends
returned(t) ==
    [threads EXCEPT ![t] = IF @.kind = "ui" THEN Idle
                           ELSE [@ EXCEPT !.pc = "done", !.length = 0]]

\* the call made by thread t raises: the event handler of the user
\* interface is left, a timer thread dies
raised(t) ==
    [threads EXCEPT ![t] = IF @.kind = "ui" THEN Idle
                           ELSE [@ EXCEPT !.pc = "raised", !.length = 0]]

\* what a call of the user interface leaves in op; a timer thread is no call
result(t, name, ret, saved) ==
    IF threads[t].kind = "ui" THEN [name |-> name, ret |-> ret, saved |-> saved] ELSE op

\* datetime.now() + timedelta(minutes=minutes)
timedelta(minutes) == minutes

\* a new Thread(target=...), started
Thread(target, line) == [kind |-> target, pc |-> line, minutes |-> None, length |-> 0]

\* a slip: start_reservation looks at reservation_active alone
start_reservation_unguarded(minutes) ==
    /\ at(1, "idle")
    /\ reservation_active \/ Len(threads) <= MaxTimers
    /\ IF reservation_active
       THEN /\ op' = [name |-> "start_reservation", ret |-> FALSE, saved |-> 0]
            /\ UNCHANGED threads
       ELSE /\ threads' = [threads EXCEPT ![1].pc = "L95",
                              ![1].minutes = IF minutes # None THEN minutes
                                             ELSE default_data.settings.reservation_minutes]
            /\ UNCHANGED op
    /\ UNCHANGED <<outside, task_chain, longest_chain, task_history, reservation_active,
                   reservation_end_time, task_active, task_end_time, timer_thread, now,
                   completed>>

\* The calls are explored while fewer than MaxTimers timer threads have been
\* started; a call that starts no thread is explored in every state.  A
\* call that returns None or True leaves "None" or "True" in op.ret.

\* start_reservation, lines 87-94: the call and the test of the two flags
\* (two reads; between them only timer threads run, and they only clear
\* flags, so the outcome is that of one test made at the second read)
start_reservation(minutes) ==
    /\ at(1, "idle")
    /\ (reservation_active \/ task_active) \/ Len(threads) <= MaxTimers
    /\ IF reservation_active \/ task_active
       THEN /\ op' = [name |-> "start_reservation", ret |-> FALSE, saved |-> 0]
            /\ UNCHANGED threads
       ELSE /\ threads' = [threads EXCEPT ![1].pc = "L95",
                              ![1].minutes = IF minutes # None THEN minutes
                                             ELSE default_data.settings.reservation_minutes]
            /\ UNCHANGED op
    /\ UNCHANGED <<outside, task_chain, longest_chain, task_history, reservation_active,
                   reservation_end_time, task_active, task_end_time, timer_thread, now,
                   completed>>

start_reservation_95 ==
    /\ at(1, "L95")
    /\ reservation_active' = TRUE
    /\ threads' = goto(1, "L96")
    /\ UNCHANGED <<outside, op, task_chain, longest_chain, task_history,
                   reservation_end_time, task_active, task_end_time, timer_thread, now,
                   completed>>

\* lines 96-106: the end time is written, the timer thread is started and
\* the call returns True
start_reservation_96 ==
    /\ at(1, "L96")
    /\ reservation_end_time' = now + timedelta(threads[1].minutes)
    /\ timer_thread' = Len(threads) + 1
    /\ threads' = Append(returned(1), Thread("_reservation_timer", "L110"))
    /\ op' = [name |-> "start_reservation", ret |-> TRUE, saved |-> 0]
    /\ UNCHANGED <<outside, task_chain, longest_chain, task_history, reservation_active,
                   task_active, task_end_time, now, completed>>

\* _reservation_timer, lines 110-116: the loop test; the thread sleeps and
\* tests again, or leaves the loop (the loop body changes nothing, so one
\* pass through test and sleep is one step)
_reservation_timer_110(t) ==
    /\ at(t, "L110")
    /\ threads' = IF reservation_active /\ now < reservation_end_time
                  THEN threads
                  ELSE goto(t, "L118")
    /\ UNCHANGED <<outside, op, task_chain, longest_chain, task_history, reservation_active,
                   reservation_end_time, task_active, task_end_time, timer_thread, now,
                   completed>>

_reservation_timer_118(t) ==
    /\ at(t, "L118")
    /\ threads' = IF reservation_active THEN goto(t, "L123") ELSE returned(t)
    /\ UNCHANGED <<outside, op, task_chain, longest_chain, task_history, reservation_active,
                   reservation_end_time, task_active, task_end_time, timer_thread, now,
                   completed>>

_reservation_timer_123(t) ==
    /\ at(t, "L123")
    /\ reservation_active' = FALSE
    /\ threads' = returned(t)
    /\ UNCHANGED <<outside, op, task_chain, longest_chain, task_history,
                   reservation_end_time, task_active, task_end_time, timer_thread, now,
                   completed>>

\* start_task, lines 125-129: the call and the test of task_active
start_task(minutes) ==
    /\ at(1, "idle")
    /\ task_active \/ Len(threads) <= MaxTimers
    /\ IF task_active
       THEN /\ op' = [name |-> "start_task", ret |-> "None", saved |-> 0]
            /\ UNCHANGED threads
       ELSE /\ threads' = [threads EXCEPT ![1].pc = "L132",
                              ![1].minutes = IF minutes # None THEN minutes
                                             ELSE default_data.settings.task_minutes]
            /\ UNCHANGED op
    /\ UNCHANGED <<outside, task_chain, longest_chain, task_history, reservation_active,
                   reservation_end_time, task_active, task_end_time, timer_thread, now,
                   completed>>

\* lines 132-134: a reservation that is active is stopped (every other
\* writer of the flag clears it as well)
start_task_132 ==
    /\ at(1, "L132")
    /\ reservation_active' = FALSE
    /\ threads' = goto(1, "L139")
    /\ UNCHANGED <<outside, op, task_chain, longest_chain, task_history,
                   reservation_end_time, task_active, task_end_time, timer_thread, now,
                   completed>>

\* line 139: the task is started; its completions are counted from here
start_task_139 ==
    /\ at(1, "L139")
    /\ task_active' = TRUE
    /\ completed' = Append(completed, [ended |-> 0, saved |-> 0])
    /\ threads' = goto(1, "L140")
    /\ UNCHANGED <<outside, op, task_chain, longest_chain, task_history, reservation_active,
                   reservation_end_time, task_end_time, timer_thread, now>>

start_task_140 ==
    /\ at(1, "L140")
    /\ task_end_time' = now + timedelta(threads[1].minutes)
    /\ threads' = goto(1, "L142")
    /\ UNCHANGED <<outside, op, task_chain, longest_chain, task_history, reservation_active,
                   reservation_end_time, task_active, timer_thread, now, completed>>

\* lines 142-160: the node with id len(task_chain) + 1 is appended,
\* save_data, the timer thread is started and the call returns True
start_task_142 ==
    /\ at(1, "L142")
    /\ task_chain' = Append(task_chain, Len(task_chain) + 1)
    /\ timer_thread' = Len(threads) + 1
    /\ threads' = Append(returned(1), Thread("_task_timer", "L164"))
    /\ op' = [name |-> "start_task", ret |-> "True", saved |-> 1]
    /\ UNCHANGED <<outside, longest_chain, task_history, reservation_active,
                   reservation_end_time, task_active, task_end_time, now, completed>>

\* _task_timer, lines 164-169: the loop test; the thread sleeps and tests
\* again, or leaves the loop
_task_timer_164(t) ==
    /\ at(t, "L164")
    /\ threads' = IF task_active /\ now < task_end_time
                  THEN threads
                  ELSE goto(t, "L171")
    /\ UNCHANGED <<outside, op, task_chain, longest_chain, task_history, reservation_active,
                   reservation_end_time, task_active, task_end_time, timer_thread, now,
                   completed>>

\* a slip: _task_timer returns after its loop without completing the task
_task_timer_returning(t) ==
    /\ at(t, "L171")
    /\ threads' = returned(t)
    /\ UNCHANGED <<outside, op, task_chain, longest_chain, task_history, reservation_active,
                   reservation_end_time, task_active, task_end_time, timer_thread, now,
                   completed>>

\* lines 171-172: complete_task is called if the flag is still set
_task_timer_171(t) ==
    /\ at(t, "L171")
    /\ threads' = IF task_active THEN goto(t, "L176") ELSE returned(t)
    /\ UNCHANGED <<outside, op, task_chain, longest_chain, task_history, reservation_active,
                   reservation_end_time, task_active, task_end_time, timer_thread, now,
                   completed>>

\* complete_task, lines 174-185, called by the user interface (t = 1) or by
\* a task timer: the test of task_active
complete_task(t) ==
    /\ \/ t = 1 /\ at(t, "idle")
       \/ t > 1 /\ at(t, "L176")
    /\ IF ~task_active
       THEN /\ threads' = returned(t)
            /\ op' = result(t, "complete_task", "None", 0)
       ELSE /\ threads' = goto(t, "L187")
            /\ UNCHANGED op
    /\ UNCHANGED <<outside, task_chain, longest_chain, task_history, reservation_active,
                   reservation_end_time, task_active, task_end_time, timer_thread, now,
                   completed>>

\* the task started last has one more completion
count(field) ==
    [completed EXCEPT ![Len(completed)] =
        IF field = "ended" THEN [@ EXCEPT !.ended = @ + 1] ELSE [@ EXCEPT !.saved = @ + 1]]

complete_task_187(t) ==
    /\ at(t, "L187")
    /\ task_active' = FALSE
    /\ completed' = count("ended")
    /\ threads' = goto(t, "L188")
    /\ UNCHANGED <<outside, op, task_chain, longest_chain, task_history, reservation_active,
                   reservation_end_time, task_end_time, timer_thread, now>>

complete_task_188(t) ==
    /\ at(t, "L188")
    /\ threads' = [threads EXCEPT ![t].pc = "L189", ![t].length = Len(task_chain)]
    /\ UNCHANGED <<outside, op, task_chain, longest_chain, task_history, reservation_active,
                   reservation_end_time, task_active, task_end_time, timer_thread, now,
                   completed>>

\* line 189: task_chain[-1] raises IndexError on an empty chain
complete_task_189(t) ==
    /\ at(t, "L189")
    /\ IF task_chain = <<>>
       THEN /\ threads' = raised(t)
            /\ op' = result(t, "complete_task", "IndexError", 0)
       ELSE /\ threads' = goto(t, "L195")
            /\ UNCHANGED op
    /\ UNCHANGED <<outside, task_chain, longest_chain, task_history, reservation_active,
                   reservation_end_time, task_active, task_end_time, timer_thread, now,
                   completed>>

\* lines 195-200: the record is compared; if it stands, save_data and the
\* return of True
complete_task_195(t) ==
    /\ at(t, "L195")
    /\ IF threads[t].length > longest_chain
       THEN /\ threads' = goto(t, "L196")
            /\ UNCHANGED <<op, completed>>
       ELSE /\ threads' = returned(t)
            /\ completed' = count("saved")
            /\ op' = result(t, "complete_task", "True", 1)
    /\ UNCHANGED <<outside, task_chain, longest_chain, task_history, reservation_active,
                   reservation_end_time, task_active, task_end_time, timer_thread, now>>

\* lines 196-200: the record is written, save_data and the return of True
complete_task_196(t) ==
    /\ at(t, "L196")
    /\ longest_chain' = threads[t].length
    /\ threads' = returned(t)
    /\ completed' = count("saved")
    /\ op' = result(t, "complete_task", "True", 1)
    /\ UNCHANGED <<outside, task_chain, task_history, reservation_active,
                   reservation_end_time, task_active, task_end_time, timer_thread, now>>

\* stop_task, lines 202-206
stop_task ==
    /\ at(1, "idle")
    /\ IF ~task_active
       THEN /\ op' = [name |-> "stop_task", ret |-> "None", saved |-> 0]
            /\ UNCHANGED threads
       ELSE /\ threads' = goto(1, "L208")
            /\ UNCHANGED op
    /\ UNCHANGED <<outside, task_chain, longest_chain, task_history, reservation_active,
                   reservation_end_time, task_active, task_end_time, timer_thread, now,
                   completed>>

stop_task_208 ==
    /\ at(1, "L208")
    /\ task_active' = FALSE
    /\ threads' = returned(1)
    /\ op' = [name |-> "stop_task", ret |-> "None", saved |-> 0]
    /\ UNCHANGED <<outside, task_chain, longest_chain, task_history, reservation_active,
                   reservation_end_time, task_end_time, timer_thread, now, completed>>

\* the last 20 entries of the history
last20(h) == IF Len(h) > 20 THEN SubSeq(h, Len(h) - 19, Len(h)) ELSE h

\* reset_chain, lines 211-223: a chain that is not empty goes to the
\* history, which only the user interface uses, and the chain is emptied
reset_chain ==
    /\ at(1, "idle")
    /\ task_history' = IF task_chain # <<>> THEN last20(Append(task_history, task_chain))
                       ELSE task_history
    /\ task_chain' = <<>>
    /\ threads' = goto(1, "L224")
    /\ UNCHANGED <<outside, op, longest_chain, reservation_active,
                   reservation_end_time, task_active, task_end_time, timer_thread, now,
                   completed>>

reset_chain_224 ==
    /\ at(1, "L224")
    /\ task_active' = FALSE
    /\ threads' = goto(1, "L225")
    /\ UNCHANGED <<outside, op, task_chain, longest_chain, task_history, reservation_active,
                   reservation_end_time, task_end_time, timer_thread, now, completed>>

\* lines 225-229: the second flag, save_data and the return
reset_chain_225 ==
    /\ at(1, "L225")
    /\ reservation_active' = FALSE
    /\ threads' = returned(1)
    /\ op' = [name |-> "reset_chain", ret |-> "None", saved |-> 1]
    /\ UNCHANGED <<outside, task_chain, longest_chain, task_history,
                   reservation_end_time, task_active, task_end_time, timer_thread, now,
                   completed>>

\* a minute passes
Tick ==
    /\ now < MaxClock
    /\ now' = now + 1
    /\ UNCHANGED <<outside, op, task_chain, longest_chain, task_history, reservation_active,
                   reservation_end_time, task_active, task_end_time, timer_thread, threads,
                   completed>>

----------------------------------------------------------------------------
(* ui_main.py: the formula window, opened on protocol.formula_manager *)

\* selected_item is None when no row of the tree is selected, else the id
\* of the selected row
add_formula_action(entry, selected_item) ==
    /\ UNCHANGED <<singleton, protocol>>
    /\ IF strip(entry) = <<>>
       THEN /\ messagebox' = <<"showwarning", <<"no_name">> >>
            /\ UNCHANGED <<engine, today, op, top_given>>
       ELSE /\ add_formula(strip(entry), selected_item)
            /\ messagebox' = <<(IF op'.ret[1] THEN "showinfo" ELSE "showerror"), op'.ret[2]>>

change_status_action(selected_item) ==
    /\ UNCHANGED <<singleton, protocol>>
    /\ IF selected_item = None
       THEN /\ messagebox' = <<"showwarning", <<"no_selection">> >>
            /\ UNCHANGED <<engine, today, op, top_given>>
       ELSE /\ change_formula_status(selected_item)
            /\ UNCHANGED messagebox

\* answer is the button pressed in the askyesno dialog; remove_formula is
\* called with the id alone, so its confirm parameter has its default False
remove_formula_action(selected_item, answer) ==
    /\ UNCHANGED <<singleton, protocol>>
    /\ IF selected_item = None
       THEN /\ messagebox' = <<"showwarning", <<"no_selection">> >>
            /\ UNCHANGED <<engine, today, op, top_given>>
       ELSE IF get_formula_by_id(formulas, selected_item) = 0
       THEN /\ messagebox' = <<"showerror", <<"not_found">> >>
            /\ UNCHANGED <<engine, today, op, top_given>>
       ELSE IF ~answer
       THEN /\ messagebox' = <<"askyesno", <<"no">> >>
            /\ UNCHANGED <<engine, today, op, top_given>>
       ELSE /\ remove_formula(selected_item, FALSE)
            /\ messagebox' = IF op'.ret[1]
                             THEN <<"showinfo", <<"deleted", op'.ret[2]>> >>
                             ELSE <<"showerror", <<"delete_failed">> >>

----------------------------------------------------------------------------
(* Inputs *)

NameInputs == {<<>>, <<" ">>, <<" ", "x", " ">>}

\* ids a caller can name: those of the forest, those still in the progress
\* map, 0 and one id that names nothing
IdInputs == ids(formulas) \cup DOMAIN active_tree_progress \cup {0, new_id(formulas)}

ParentInputs == {None} \cup IdInputs

\* the parents tried where the cursor operations are explored as well: none,
\* id 1 and an id that names nothing
NearParents == {None, 1, new_id(formulas)}

\* the nodes toggled where the forest changes as well: ids 1 and 2
\* (A and B of the seed, or whatever node was given the id later) and 0
NearIds == {0, 1, 2}

\* update_formula_name is explored on id 1 and on an id that names nothing
RenameInputs == {0, 1}

\* the levels asked of get_nodes_at_level: below 0, every tier, beyond the deepest
LevelInputs == (0 - 1)..MaxNodes

\* a forest as another export would hold it: a root that is ACTIVE with no
\* activation date, and its two children
OtherForest ==
    << [id |-> 1, name |-> <<"P">>, parent |-> None, children |-> <<2, 3>>,
        status |-> ACTIVE, last_active_time |-> NoDate],
       [id |-> 2, name |-> <<"Q">>, parent |-> 1, children |-> <<>>,
        status |-> INACTIVE, last_active_time |-> isoformat(Day0)],
       [id |-> 3, name |-> <<"R">>, parent |-> 1, children |-> <<>>,
        status |-> ACTIVE, last_active_time |-> isoformat(Day0)] >>

\* texts given to import_formulas: one that does not parse, a number, an
\* object (a whole data file), the empty list and a list of two nodes
ImportInputs ==
    {Unparsable, <<"num", 7>>, <<"obj", [formulas |-> <<"arr", <<>> >>]>>,
     json_dumps(<<>>), json_dumps(OtherForest)}

\* snapshots given to set_formulas_data: the empty dict of a first run, a
\* dict with the nodes only, a whole snapshot as json.load returns it (the
\* progress keys are strings), one with a progress key that is no number and
\* one with a date that names no day
DataInputs ==
    {[k \in {} |-> 0],
     [formulas |-> OtherForest],
     [formulas |-> OtherForest, last_addition_date |-> isoformat(Day0),
      active_tree_progress |-> [k \in {<<"str", <<"1">> >>} |-> 1]],
     [formulas |-> <<>>, last_addition_date |-> NoDate,
      active_tree_progress |-> [k \in {<<"str", <<"x">> >>} |-> 0]],
     [formulas |-> <<>>, last_addition_date |-> <<2024, 2, 30>>,
      active_tree_progress |-> [k \in {<<"str", <<" ", "2">> >>} |-> 0]]}

----------------------------------------------------------------------------
(* Specification *)

Add ==
    /\ \E name \in NameInputs, parent_id \in ParentInputs : add_formula(name, parent_id)
    /\ UNCHANGED shell

AddNear ==
    /\ \E name \in NameInputs, parent_id \in NearParents : add_formula(name, parent_id)
    /\ UNCHANGED shell

Remove ==
    /\ \E formula_id \in IdInputs, confirm \in BOOLEAN : remove_formula(formula_id, confirm)
    /\ UNCHANGED shell

Advance ==
    /\ \E root_id \in IdInputs : execute_next_level(root_id)
    /\ UNCHANGED shell

ToggleNear ==
    /\ \E formula_id \in NearIds : change_formula_status(formula_id)
    /\ UNCHANGED shell

Rename ==
    /\ \E formula_id \in RenameInputs, new_name \in NameInputs :
          update_formula_name(formula_id, new_name)
    /\ UNCHANGED shell

Import ==
    /\ \E json_data \in ImportInputs : import_formulas(json_data)
    /\ UNCHANGED shell

\* import_formulas(export_formulas())
Reimport ==
    /\ import_formulas(export_formulas(formulas))
    /\ UNCHANGED shell

Clear ==
    /\ clear_all_formulas
    /\ UNCHANGED shell

Load ==
    /\ \E data \in DataInputs : set_formulas_data(data)
    /\ UNCHANGED shell

\* set_formulas_data(get_formulas_data())
Reload ==
    /\ set_formulas_data(get_formulas_data)
    /\ UNCHANGED shell

Stale ==
    /\ check_inactive_formulas
    /\ UNCHANGED shell

Level ==
    /\ \E root_id \in IdInputs, level \in LevelInputs : nodes_at_level(root_id, level)
    /\ UNCHANGED shell

\* every operation of the engine
Next == AddNear \/ Remove \/ Advance \/ ToggleNear \/ Rename \/ Midnight

Spec == Init /\ [][Next]_vars

\* the forest under add_formula and remove_formula alone
NextForest == Add \/ Remove \/ Midnight

SpecForest == Init /\ [][NextForest]_vars

\* the cursor map under status toggles and level advances, in a forest that
\* add_formula and remove_formula change
NextCursor == AddNear \/ Remove \/ Advance \/ ToggleNear \/ Midnight

SpecCursor == Init /\ [][NextCursor]_vars

\* the calls that invoke the persistence callback, made on one day
NextStore == Add \/ Remove \/ Advance \/ ToggleNear \/ Rename \/ Import \/ Reimport \/ Clear

SpecStore == Init /\ [][NextStore]_vars

\* get_nodes_at_level asked of the forests that removals and the day's
\* add_formula make
NextLevel == Add \/ Remove \/ Level

SpecLevel == Init /\ [][NextLevel]_vars

\* check_inactive_formulas over days and weeks, nodes toggled or imported
NextStale == ToggleNear \/ Import \/ Stale \/ Midnight \/ Week

SpecStale == Init /\ [][NextStale]_vars

\* loading and saving snapshots between other calls
NextLoad == Load \/ Reload \/ AddNear \/ ToggleNear \/ Advance \/ Midnight

SpecLoad == Init /\ [][NextLoad]_vars

\* removals of the two leaves of the seed, confirmed
RemoveLeaf ==
    /\ \E formula_id \in {3, 4} : remove_formula(formula_id, TRUE)
    /\ UNCHANGED shell

AdvanceNear ==
    /\ \E root_id \in NearIds : execute_next_level(root_id)
    /\ UNCHANGED shell

\* a node named x added below node 1
AddChild ==
    /\ add_formula(<<"x">>, 1)
    /\ UNCHANGED shell

\* the timestamps over the days: nodes switched on and off, renamed and
\* advanced, while leaves are removed and nodes are added
NextTimes == AddChild \/ RemoveLeaf \/ AdvanceNear \/ ToggleNear \/ Rename \/ Midnight

SpecTimes == Init /\ [][NextTimes]_vars

\* the parents tried where the forest only grows: none, the deepest leaf of
\* the seed and an id that names nothing
DeepParents == {None, 4, new_id(formulas)}

\* add_formula in a forest that only grows: the daily gate allows one node
\* a day, so the forest holds at most 4 + MaxDay + 1 nodes
Grow ==
    /\ \E name \in NameInputs, parent_id \in DeepParents : add_formula_call(name, parent_id)
    /\ UNCHANGED shell

\* the cursors in a forest that is never cut: no remove, import, clear or load
NextGrow == Grow \/ Advance \/ ToggleNear \/ Rename \/ Midnight

SpecGrow == Init /\ [][NextGrow]_vars

\* the callbacks passed to get_manager: none and two functions
CallbackInputs == {NoCallback, "first", "second"}

GetManager == \E callback \in CallbackInputs : get_manager(callback)

\* calls made on the engine that get_manager returned
ManagerToggle == _instance # None /\ ToggleNear

ManagerAdvance == _instance # None /\ AdvanceNear

ManagerRename == _instance # None /\ Rename

\* the singleton and the calls made through it
NextSingleton == GetManager \/ ManagerToggle \/ ManagerAdvance \/ ManagerRename

SpecSingleton == Init /\ [][NextSingleton]_vars

\* the rows a user can select in the tree of the formula window: none, or
\* the row of a node
SelectInputs == {None} \cup ids(formulas)

AddClicked ==
    /\ threads # <<>>
    /\ \E entry \in NameInputs, selected_item \in SelectInputs :
          add_formula_action(entry, selected_item)

StatusClicked ==
    /\ threads # <<>>
    /\ \E selected_item \in SelectInputs : change_status_action(selected_item)

DeleteClicked ==
    /\ threads # <<>>
    /\ \E selected_item \in SelectInputs, answer \in BOOLEAN :
          remove_formula_action(selected_item, answer)

\* the minutes typed into the dialogs: none (the setting is used) and 1
MinuteInputs == {None, 1}

StartReservation ==
    \/ \E minutes \in MinuteInputs : start_reservation(minutes)
    \/ start_reservation_95
    \/ start_reservation_96

StartTask ==
    \/ \E minutes \in MinuteInputs : start_task(minutes)
    \/ start_task_132
    \/ start_task_139
    \/ start_task_140
    \/ start_task_142

\* complete_task, run by the user interface or by a task timer
CompleteTask ==
    \E t \in 1..Len(threads) :
        \/ complete_task(t)
        \/ complete_task_187(t)
        \/ complete_task_188(t)
        \/ complete_task_189(t)
        \/ complete_task_195(t)
        \/ complete_task_196(t)

StopTask == stop_task \/ stop_task_208

ResetChain == reset_chain \/ reset_chain_224 \/ reset_chain_225

ReservationTimer ==
    \E t \in 2..Len(threads) :
        \/ _reservation_timer_110(t)
        \/ _reservation_timer_118(t)
        \/ _reservation_timer_123(t)

TaskTimer ==
    \E t \in 2..Len(threads) :
        \/ _task_timer_164(t)
        \/ _task_timer_171(t)

\* the chain protocol after a first start: the operations of the user
\* interface, the timer threads and the clock, in every interleaving
NextChain ==
    \/ ChainDelayProtocol
    \/ StartReservation
    \/ StartTask
    \/ CompleteTask
    \/ StopTask
    \/ ResetChain
    \/ ReservationTimer
    \/ TaskTimer
    \/ Tick

SpecChain == Init /\ [][NextChain]_vars

\* minutes short enough for the clock to pass the end time
ShortInputs == {1}

\* the clock of a run that lasts: a minute passes while an end time that a
\* call has written lies ahead
Clock ==
    /\ \/ now < MaxClock
       \/ reservation_end_time # None /\ now < reservation_end_time
       \/ task_end_time # None /\ now < task_end_time
    /\ now' = now + 1
    /\ UNCHANGED <<outside, op, task_chain, longest_chain, task_history, reservation_active,
                   reservation_end_time, task_active, task_end_time, timer_thread, threads,
                   completed>>

Reserve ==
    \/ \E minutes \in ShortInputs : start_reservation(minutes)
    \/ start_reservation_95
    \/ start_reservation_96

Begin ==
    \/ \E minutes \in ShortInputs : start_task(minutes)
    \/ start_task_132
    \/ start_task_139
    \/ start_task_140
    \/ start_task_142

\* the next statement of timer thread t, complete_task included when
\* _task_timer calls it
run(t) ==
    /\ t > 1
    /\ \/ _reservation_timer_110(t)
       \/ _reservation_timer_118(t)
       \/ _reservation_timer_123(t)
       \/ _task_timer_164(t)
       \/ _task_timer_171(t)
       \/ complete_task(t)
       \/ complete_task_187(t)
       \/ complete_task_188(t)
       \/ complete_task_189(t)
       \/ complete_task_195(t)
       \/ complete_task_196(t)

\* the chain protocol with short reservations and tasks
NextTimers ==
    \/ ChainDelayProtocol
    \/ Reserve
    \/ Begin
    \/ CompleteTask
    \/ StopTask
    \/ ResetChain
    \/ ReservationTimer
    \/ TaskTimer
    \/ Clock

\* Every timer thread is a daemon thread of the interpreter, which lets each
\* thread that can run do so again and again, and time.sleep returns; the
\* clock of the machine advances.  Nothing is assumed of the user interface:
\* the user may stop calling, and a handler may take any time.
Scheduling ==
    /\ WF_vars(Clock)
    /\ \A t \in 2..(MaxTimers + 1) : WF_vars(run(t))

SpecTimers == Init /\ [][NextTimers]_vars /\ Scheduling

\* the application started for the first time and its formula window used
\* over the days
NextWindow == ChainDelayProtocol \/ AddClicked \/ StatusClicked \/ DeleteClicked \/ Midnight

SpecWindow == Init /\ [][NextWindow]_vars

----------------------------------------------------------------------------
(* Vocabulary of the properties *)

Node(F, formula_id) == F[CHOOSE i \in 1..Len(F) : F[i].id = formula_id]

ChildSet(f) == {f.children[j] : j \in 1..Len(f.children)}

\* node i of F is formula_id or lies below it, following parent links
RECURSIVE Under(_, _, _, _)
Under(F, i, formula_id, fuel) ==
    \/ F[i].id = formula_id
    \/ F[i].parent = formula_id
    \/ /\ fuel > 0
       /\ \E j \in 1..Len(F) : F[j].id = F[i].parent /\ Under(F, j, formula_id, fuel - 1)

Closure(F, formula_id) == {F[i].id : i \in {j \in 1..Len(F) : Under(F, j, formula_id, Len(F))}}

\* the names of the nodes of F whose id is in S, in list order
NamesIn(F, S) ==
    LET pos == {i \in 1..Len(F) : F[i].id \in S}
        nth(k) == CHOOSE i \in pos : Cardinality({j \in pos : j < i}) = k - 1
    IN [k \in 1..Cardinality(pos) |-> F[nth(k)].name]

Largest(S) == CHOOSE m \in S : \A x \in S : x <= m

IsRoot(F, formula_id) ==
    \E i \in 1..Len(F) : F[i].id = formula_id /\ F[i].parent = None

UniqueIds(F) == \A i, j \in 1..Len(F) : F[i].id = F[j].id => i = j

AddSucceeded == op.name = "add_formula" /\ op.ret[1] = TRUE

Newest(F) == F[Len(F)]

----------------------------------------------------------------------------
(* Properties of the forest: add_formula and remove_formula *)

\* C1: in every state reached by add_formula and remove_formula calls, the
\* ids in a node's children list are exactly the ids of the nodes whose
\* parent is that node.
C1_ChildrenMatchParents ==
    \A i \in 1..Len(formulas) :
        ChildSet(formulas[i]) =
            {formulas[k].id : k \in {j \in 1..Len(formulas) : formulas[j].parent = formulas[i].id}}

\* a node added below a parent is still there after a confirmed removal
C1_Witness ==
    /\ op.name = "remove_formula" /\ op.saved = 1
    /\ \E i \in 1..Len(formulas) :
          /\ formulas[i].id > 4
          /\ formulas[i].parent \in ids(formulas)
          /\ formulas[i].id \in ChildSet(Node(formulas, formulas[i].parent))

\* C2: remove_formula(id, True) on an existing id removes exactly the node
\* and its transitive descendants, leaves no removed id in a surviving
\* children list, and returns (True, names of the removed nodes).
C2_RemoveExactlySubtree ==
    [][\A formula_id \in IdInputs :
          (formula_id \in ids(formulas) /\ remove_formula(formula_id, TRUE)) =>
              LET gone == Closure(formulas, formula_id)
              IN /\ ids(formulas') = ids(formulas) \ gone
                 /\ Len(formulas') = Len(formulas) - Cardinality(gone)
                 /\ \A i \in 1..Len(formulas') : ChildSet(formulas'[i]) \cap gone = {}
                 /\ \A i \in 1..Len(formulas') :
                       [formulas'[i] EXCEPT !.children = <<>>] =
                       [Node(formulas, formulas'[i].id) EXCEPT !.children = <<>>]
                 /\ op'.ret = <<TRUE, NamesIn(formulas, gone)>>]_vars

\* a subtree of several nodes was removed and other nodes survive
C2_Witness ==
    /\ op.name = "remove_formula" /\ op.saved = 1
    /\ Len(op.ret[2]) >= 2
    /\ Len(formulas) >= 1

\* C3: remove_formula(id, False) changes nothing and does not invoke the
\* persistence callback; it returns (True, names of the closure) for an
\* existing id and (False, []) for an id that matches nothing.
C3_DryRunChangesNothing ==
    [][\A formula_id \in IdInputs :
          remove_formula(formula_id, FALSE) =>
              /\ engine' = engine
              /\ op'.saved = 0
              /\ formula_id \in ids(formulas) =>
                    op'.ret = <<TRUE, NamesIn(formulas, Closure(formulas, formula_id))>>
              /\ Closure(formulas, formula_id) = {} => op'.ret = <<FALSE, <<>> >>]_vars

\* a preview of a subtree of several nodes
C3_Witness ==
    /\ op.name = "remove_formula" /\ op.saved = 0
    /\ op.ret[1] = TRUE /\ Len(op.ret[2]) >= 2
    /\ Len(formulas) >= Len(op.ret[2])

\* C4: a successful add_formula gives the new node the id 1 + the largest
\* id in the forest, or 1 when the forest is empty, gaps or not.
C4_NewIdIsMaxPlusOne ==
    [][\A name \in NameInputs, parent_id \in ParentInputs :
          (add_formula(name, parent_id) /\ op'.ret[1] = TRUE) =>
              /\ Len(formulas') = Len(formulas) + 1
              /\ Newest(formulas').id =
                    IF formulas = <<>> THEN 1 ELSE Largest(ids(formulas)) + 1]_vars

\* an add succeeded in a forest whose ids have a gap
C4_Witness ==
    /\ AddSucceeded
    /\ \E k \in 1..Newest(formulas).id : k \notin ids(formulas)

\* C5 as stated: ids are unique and every id add_formula assigns is larger
\* than every id it assigned before, removals in between or not.
C5_IdsNeverReissued ==
    /\ [](UniqueIds(formulas))
    /\ [][\A name \in NameInputs, parent_id \in ParentInputs :
             (add_formula(name, parent_id) /\ op'.ret[1] = TRUE) =>
                 Newest(formulas').id > top_given]_vars

\* C5 as amended: ids are unique and every id add_formula assigns is larger
\* than the id of every node in the forest at the time of the call.
C5_IdsUniqueAndAboveForest ==
    /\ [](UniqueIds(formulas))
    /\ [][\A name \in NameInputs, parent_id \in ParentInputs :
             (add_formula(name, parent_id) /\ op'.ret[1] = TRUE) =>
                 \A i \in 1..Len(formulas) : Newest(formulas').id > formulas[i].id]_vars

\* an add succeeded in a forest that held other nodes
C5_Witness ==
    /\ AddSucceeded
    /\ Len(formulas) >= 2
    /\ top_given = Newest(formulas).id

\* C6: after a successful add_formula on a day, every add_formula call of
\* that day fails with the already-added message and changes nothing; a call
\* with valid arguments on the next day succeeds.
C6_DailyGate ==
    [][
        /\ \A name \in NameInputs, parent_id \in ParentInputs :
             add_formula(name, parent_id) =>
                 /\ last_addition_date = today =>
                       /\ op'.ret = <<FALSE, <<"already_added_today">> >>
                       /\ engine' = engine
                       /\ op'.saved = 0
                 /\ (/\ last_addition_date # today
                     /\ strip(name) # <<>>
                     /\ parent_id \in {None} \cup ids(formulas)) => op'.ret[1] = TRUE
        /\ Len(formulas') > Len(formulas) =>
              /\ Len(formulas') = Len(formulas) + 1
              /\ last_addition_date # today
              /\ last_addition_date' = today'
        /\ (today' = today /\ last_addition_date = today) => last_addition_date' = today
    ]_vars

\* an add was refused on the day of an earlier successful add
C6_Witness ==
    /\ op.name = "add_formula"
    /\ op.ret = <<FALSE, <<"already_added_today">> >>
    /\ last_addition_date = today
    /\ top_given # 0

----------------------------------------------------------------------------
(* Properties of the cursor: execute_next_level and change_formula_status *)

\* the number of parent links from node i of F up to root_id, -1 if none lead there
RECURSIVE Dist(_, _, _, _)
Dist(F, i, root_id, fuel) ==
    IF F[i].id = root_id THEN 0
    ELSE IF fuel = 0 \/ F[i].parent \notin ids(F) THEN -1
    ELSE LET d == Dist(F, CHOOSE j \in 1..Len(F) : F[j].id = F[i].parent, root_id, fuel - 1)
         IN IF d < 0 THEN -1 ELSE d + 1

Depth(F, root_id) == Largest({Dist(F, i, root_id, Len(F)) : i \in 1..Len(F)})

\* C7: for a tracked root at level 0 whose subtree has depth D, the first D
\* calls of execute_next_level made in a row return False and store the
\* levels 1..D, and call D+1 returns True and stores level 0.
C7_AdvanceCycle ==
    (op.name = "execute_next_level" /\ op.calls # <<>> /\ IsRoot(formulas, op.root)) =>
        LET D == Depth(formulas, op.root)
            n == Len(op.calls)
        IN /\ n <= D + 1
           /\ \A i \in 1..n : op.calls[i] = IF i <= D THEN <<FALSE, i>> ELSE <<TRUE, 0>>
           /\ op.ret = op.calls[n][1]
           /\ active_tree_progress[op.root] = op.calls[n][2]

\* a root of depth 2 was advanced three times in a row and wrapped
C7_Witness ==
    /\ op.name = "execute_next_level"
    /\ Len(op.calls) = 3
    /\ op.calls[3] = <<TRUE, 0>>
    /\ IsRoot(formulas, op.root)

\* C8: on the seeded forest one toggle of A makes A ACTIVE and tracked at
\* level 0, and three execute_next_level(A) calls then return False (level
\* 1), False (level 2), True (level 0).
C8_SeedScenario ==
    [][(op.name = "init" /\ change_formula_status(1)) =>
          /\ Node(formulas', 1).status = ACTIVE
          /\ 1 \in DOMAIN active_tree_progress'
          /\ active_tree_progress'[1] = 0
          /\ LET F == formulas'
                 P0 == active_tree_progress'
                 P1 == set_progress(P0, 1, next_level(F, P0, 1))
                 P2 == set_progress(P1, 1, next_level(F, P1, 1))
                 P3 == set_progress(P2, 1, next_level(F, P2, 1))
             IN /\ ~cycle_done(F, P0, 1) /\ P1[1] = 1
                /\ ~cycle_done(F, P1, 1) /\ P2[1] = 2
                /\ cycle_done(F, P2, 1) /\ P3[1] = 0]_vars

\* C9: change_formula_status turns an ACTIVE root INACTIVE and drops its
\* progress entry, turns an INACTIVE root ACTIVE with last_active_time
\* today and progress 0, leaves the progress map alone for a node that is
\* not a root, and returns False for an unknown id.
C9_ToggleStatus ==
    [][\A formula_id \in NearIds :
          change_formula_status(formula_id) =>
              IF formula_id \notin ids(formulas) THEN op'.ret = FALSE
              ELSE LET f == Node(formulas, formula_id)
                       g == Node(formulas', formula_id)
                   IN /\ (f.parent = None /\ f.status = ACTIVE) =>
                             /\ g.status = INACTIVE
                             /\ formula_id \notin DOMAIN active_tree_progress'
                      /\ (f.parent = None /\ f.status = INACTIVE) =>
                             /\ g.status = ACTIVE
                             /\ g.last_active_time # NoDate
                             /\ fromisoformat(g.last_active_time) = today
                             /\ formula_id \in DOMAIN active_tree_progress'
                             /\ active_tree_progress'[formula_id] = 0
                      /\ f.parent # None =>
                             active_tree_progress' = active_tree_progress]_vars

\* a root made by add_formula was switched on, on a later day than the seed
C9_Witness ==
    /\ op.name = "change_formula_status" /\ op.ret = TRUE
    /\ top_given \in ids(formulas)
    /\ LET f == Node(formulas, top_given)
       IN /\ f.parent = None
          /\ f.status = ACTIVE
          /\ f.last_active_time = isoformat(today)
          /\ today > Day0
    /\ top_given \in DOMAIN active_tree_progress
    /\ active_tree_progress[top_given] = 0

\* C10: every key of the progress map is the id of a node of the forest
\* whose parent is None.
C10_ProgressKeysAreRoots ==
    \A k \in DOMAIN active_tree_progress : IsRoot(formulas, k)

\* C11: in every state reached by add, remove, toggle, rename and advance
\* calls, no node whose status is INACTIVE has its id as a key of the
\* progress map.
C11_NoInactiveTracked ==
    \A i \in 1..Len(formulas) :
        formulas[i].status = INACTIVE => formulas[i].id \notin DOMAIN active_tree_progress

----------------------------------------------------------------------------
(* Properties of the calls: persistence, validation, import and export *)

\* C12 as stated: every call of add, remove, rename, toggle, advance, import
\* and clear invokes the persistence callback once if it changed the engine
\* state and not at all if it did not.
C12_SavedIffMutated ==
    [][op'.saved = (IF engine' # engine THEN 1 ELSE 0)]_vars

\* C12 as amended: the callback is invoked once by every call that commits
\* (a successful add, a confirmed removal that matches, a successful rename
\* or toggle, an advance of a tracked root, an import that returns True,
\* every clear), whether or not the values written differ from the old
\* ones, and not at all by any other call; a call that changes the engine
\* state always invokes it once.
C12_SavedIffCommitted ==
    [][
        /\ engine' # engine => op'.saved = 1
        /\ op'.name = "add_formula" => op'.saved = (IF op'.ret[1] THEN 1 ELSE 0)
        /\ op'.name = "remove_formula" =>
              \A formula_id \in IdInputs, confirm \in BOOLEAN :
                  remove_formula(formula_id, confirm) =>
                      op'.saved = (IF confirm /\ op'.ret[1] THEN 1 ELSE 0)
        /\ op'.name = "update_formula_name" => op'.saved = (IF op'.ret THEN 1 ELSE 0)
        /\ op'.name = "change_formula_status" => op'.saved = (IF op'.ret THEN 1 ELSE 0)
        /\ op'.name = "execute_next_level" =>
              \A root_id \in IdInputs :
                  execute_next_level(root_id) =>
                      op'.saved = (IF root_id \in DOMAIN active_tree_progress THEN 1 ELSE 0)
        /\ op'.name = "import_formulas" => op'.saved = (IF op'.ret THEN 1 ELSE 0)
        /\ op'.name = "clear_all_formulas" => op'.saved = 1
    ]_vars

\* a call that wrote the values already there invoked the callback: a tracked
\* root without children was advanced from level 0 back to level 0
C12_Witness ==
    /\ op.name = "execute_next_level"
    /\ op.saved = 1
    /\ op.calls = << <<TRUE, 0>> >>
    /\ IsRoot(formulas, op.root)

\* C13: a call rejected by validation returns a failure value and leaves the
\* engine state unchanged: add_formula with an empty name, with a parent
\* that names no node, or on a day that already had an add;
\* update_formula_name with an empty name or an unknown id;
\* change_formula_status with an unknown id; remove_formula with an id that
\* matches nothing.
C13_RejectedCallsChangeNothing ==
    [][
        /\ \A name \in NameInputs, parent_id \in ParentInputs :
              (/\ add_formula(name, parent_id)
               /\ \/ strip(name) = <<>>
                  \/ parent_id # None /\ parent_id \notin ids(formulas)
                  \/ last_addition_date = today) =>
                  (op'.ret[1] = FALSE /\ engine' = engine)
        /\ \A formula_id \in RenameInputs, new_name \in NameInputs :
              (/\ update_formula_name(formula_id, new_name)
               /\ strip(new_name) = <<>> \/ formula_id \notin ids(formulas)) =>
                  (op'.ret = FALSE /\ engine' = engine)
        /\ \A formula_id \in NearIds :
              (change_formula_status(formula_id) /\ formula_id \notin ids(formulas)) =>
                  (op'.ret = FALSE /\ engine' = engine)
        /\ \A formula_id \in IdInputs, confirm \in BOOLEAN :
              (remove_formula(formula_id, confirm) /\ Closure(formulas, formula_id) = {}) =>
                  (op'.ret = <<FALSE, <<>> >> /\ engine' = engine)
    ]_vars

\* C14: add_formula fails whenever parent_id is not None and names no node
\* of the forest, 0 included, and no node of the forest has a parent field
\* that names a node that does not exist.
C14_UnknownParentRejected ==
    /\ [][\A name \in NameInputs, parent_id \in ParentInputs :
             (/\ add_formula(name, parent_id)
              /\ parent_id # None
              /\ parent_id \notin ids(formulas)) =>
                 (op'.ret[1] = FALSE /\ formulas' = formulas)]_vars
    /\ [](\A i \in 1..Len(formulas) :
             formulas[i].parent # None => formulas[i].parent \in ids(formulas))

\* C16: in every reachable state import_formulas(export_formulas()) returns
\* True and leaves the node list as it was, field for field and in the same
\* order, whatever the progress map and the daily-addition date hold.
C16_ExportImportRoundTrip ==
    [][import_formulas(export_formulas(formulas)) =>
          (op'.ret = TRUE /\ formulas' = formulas)]_vars

\* a forest that no import input holds was exported and imported again,
\* with a root tracked and the day's addition made
C16_Witness ==
    /\ op.name = "import_formulas" /\ op.ret = TRUE
    /\ Len(formulas) >= 2
    /\ formulas # OtherForest
    /\ \E i \in 1..Len(formulas) : formulas[i].parent # None
    /\ \E i \in 1..Len(formulas) : formulas[i].last_active_time # NoDate
    /\ DOMAIN active_tree_progress # {}
    /\ last_addition_date = today

\* the node lists whose export the import inputs hold
ListInputs == {<<>>, OtherForest}

\* C17: import_formulas on a text that does not parse, or that parses to a
\* value that is not a list, returns False, changes nothing and does not
\* invoke the callback; on a list it returns True, makes that list the node
\* list and leaves the progress map and the daily-addition date alone.
C17_ImportAllOrNothing ==
    [][\A json_data \in ImportInputs :
          (op'.name = "import_formulas" /\ import_formulas(json_data)) =>
              IF \E F \in ListInputs : json_data = json_dumps(F)
              THEN /\ op'.ret = TRUE
                   /\ formulas' = (CHOOSE F \in ListInputs : json_data = json_dumps(F))
                   /\ active_tree_progress' = active_tree_progress
                   /\ last_addition_date' = last_addition_date
              ELSE /\ op'.ret = FALSE
                   /\ op'.saved = 0
                   /\ engine' = engine]_vars

\* a list was imported over a forest with a tracked root and the day's
\* addition made: the list is the forest, the map and the date are kept
C17_Witness ==
    /\ op.name = "import_formulas" /\ op.ret = TRUE
    /\ formulas = OtherForest
    /\ DOMAIN active_tree_progress # {}
    /\ last_addition_date = today

\* C19: execute_next_level(root_id) for a root_id that is not a key of the
\* progress map returns False, changes nothing and does not invoke the
\* callback; for a tracked root it changes that root's progress entry and
\* nothing else: no node, no other entry, not the daily-addition date.
C19_AdvanceFrame ==
    [][\A root_id \in IdInputs :
          (op'.name = "execute_next_level" /\ execute_next_level(root_id)) =>
              IF root_id \notin DOMAIN active_tree_progress
              THEN /\ op'.ret = FALSE
                   /\ op'.saved = 0
                   /\ engine' = engine
              ELSE /\ formulas' = formulas
                   /\ last_addition_date' = last_addition_date
                   /\ DOMAIN active_tree_progress' = DOMAIN active_tree_progress
                   /\ \A k \in DOMAIN active_tree_progress \ {root_id} :
                         active_tree_progress'[k] = active_tree_progress[k]]_vars

\* a tracked root was advanced to level 1 while the map holds another entry
C19_Witness ==
    /\ op.name = "execute_next_level" /\ op.saved = 1
    /\ op.root \in DOMAIN active_tree_progress
    /\ active_tree_progress[op.root] = 1
    /\ \E k \in DOMAIN active_tree_progress : k # op.root

\* the number a progress key names
NumberNamed(k) ==
    IF k[1] = "int" THEN k[2]
    ELSE CHOOSE n \in 0..9 : <<DigitChars[n + 1]>> = SelectSeq(k[2], LAMBDA c : c # " ")

\* a snapshot with every field present and the progress keys as integers
WithIntKeys(data) ==
    LET raw == IF "active_tree_progress" \in DOMAIN data
               THEN data.active_tree_progress ELSE EmptyProgress
    IN [formulas |-> IF "formulas" \in DOMAIN data THEN data.formulas ELSE <<>>,
        last_addition_date |-> IF "last_addition_date" \in DOMAIN data
                               THEN data.last_addition_date ELSE NoDate,
        active_tree_progress |->
            [k \in {<<"int", NumberNamed(j)>> : j \in DOMAIN raw} |->
                raw[CHOOSE j \in DOMAIN raw : NumberNamed(j) = k[2]]]]

\* get_formulas_data() in a state with these three values
SnapshotOf(F, D, P) ==
    [formulas |-> F,
     last_addition_date |-> IF D = None THEN NoDate ELSE isoformat(D),
     active_tree_progress |-> [k \in {<<"int", n>> : n \in DOMAIN P} |-> P[k[2]]]]

\* C20: set_formulas_data(s) replaces nodes, date and progress map
\* together: afterwards get_formulas_data() is s with the progress keys as
\* integers, whatever was held before and also when s omits a field;
\* set_formulas_data(get_formulas_data()) changes nothing; and a load that
\* fails part-way leaves no partly replaced state.
C20_LoadReplacesAll ==
    [][
        /\ \A data \in DataInputs :
              (op'.name = "set_formulas_data" /\ set_formulas_data(data)) =>
                  /\ op'.ret = "None" =>
                        SnapshotOf(formulas', last_addition_date', active_tree_progress')
                            = WithIntKeys(data)
                  /\ op'.ret # "None" => engine' = engine
        /\ (op'.name = "set_formulas_data" /\ set_formulas_data(get_formulas_data)) =>
              (op'.ret = "None" /\ engine' = engine)
    ]_vars

----------------------------------------------------------------------------
(* Properties of the queries *)

\* the day an ISO text names, found by search
DayOf(s) == CHOOSE day \in 1..366 : isoformat(day) = s

\* the names of the nodes of F at the positions pos, in list order
NamesAt(F, pos) ==
    LET nth(k) == CHOOSE i \in pos : Cardinality({j \in pos : j < i}) = k - 1
    IN [k \in 1..Cardinality(pos) |-> F[nth(k)].name]

\* C15: check_inactive_formulas returns the names of exactly the nodes that
\* are ACTIVE, have a last_active_time, and were activated more than 7 days
\* before today; a node activated exactly 7 days ago or without a
\* last_active_time is not returned.
C15_StaleIffActiveOverAWeek ==
    [][check_inactive_formulas =>
          op'.ret = NamesAt(formulas,
                       {i \in 1..Len(formulas) :
                           /\ formulas[i].status = ACTIVE
                           /\ formulas[i].last_active_time # NoDate
                           /\ today - DayOf(formulas[i].last_active_time) > 7})]_vars

\* the check returned a node activated 8 days ago and passed over a node
\* activated exactly 7 days ago and an ACTIVE node without a date
C15_Witness ==
    /\ op.name = "check_inactive_formulas"
    /\ \E i, j, k \in 1..Len(formulas) :
          /\ formulas[i].status = ACTIVE
          /\ formulas[i].last_active_time = isoformat(today - 8)
          /\ InSeq(formulas[i].name, op.ret)
          /\ formulas[j].status = ACTIVE
          /\ formulas[j].last_active_time = isoformat(today - 7)
          /\ ~InSeq(formulas[j].name, op.ret)
          /\ formulas[k].status = ACTIVE
          /\ formulas[k].last_active_time = NoDate
          /\ ~InSeq(formulas[k].name, op.ret)

\* C18: for every existing root id get_nodes_at_level(root, 0) is the list
\* holding the root node alone; get_nodes_at_level(root, k) holds exactly
\* the nodes k parent links below root, each once, for 0 <= k <= depth, and
\* is empty for k beyond the deepest tier and for k < 0; the call changes
\* no state.
C18_NodesAtLevel ==
    [][(/\ op'.name = "get_nodes_at_level"
        /\ nodes_at_level(op'.root, op'.level)
        /\ op'.root \in ids(formulas)) =>
           LET root_id == op'.root
               level == op'.level
               tier == {i \in 1..Len(formulas) :
                           Dist(formulas, i, root_id, Len(formulas)) = level}
           IN /\ engine' = engine
              /\ level = 0 => op'.ret = <<Node(formulas, root_id)>>
              /\ level < 0 => op'.ret = <<>>
              /\ level > Depth(formulas, root_id) => op'.ret = <<>>
              /\ level >= 0 =>
                    /\ {op'.ret[j] : j \in 1..Len(op'.ret)} = {formulas[i] : i \in tier}
                    /\ Len(op'.ret) = Cardinality(tier)]_vars

\* the second tier below a root was asked for and holds two nodes, one of
\* them made by add_formula
C18_Witness ==
    /\ op.name = "get_nodes_at_level"
    /\ op.level = 2
    /\ IsRoot(formulas, op.root)
    /\ Len(op.ret) = 2
    /\ \E j \in 1..2 : op.ret[j].id = top_given

----------------------------------------------------------------------------
(* Properties of clear and of a successful add *)

\* C21: clear_all_formulas leaves the node list empty, leaves the progress
\* map and the daily-addition date exactly as they were, invokes the
\* persistence callback and returns True.
C21_ClearFrame ==
    [][(op'.name = "clear_all_formulas" /\ clear_all_formulas) =>
           /\ formulas' = <<>>
           /\ active_tree_progress' = active_tree_progress
           /\ last_addition_date' = last_addition_date
           /\ op'.saved = 1
           /\ op'.ret = TRUE]_vars

\* a forest with a cursor other than the seeded ones and with today's
\* addition recorded was cleared: the cursor and the date are still there
C21_Witness ==
    /\ op.name = "clear_all_formulas"
    /\ formulas = <<>>
    /\ last_addition_date = today
    /\ \E k \in DOMAIN active_tree_progress : active_tree_progress[k] > 0

\* the text s without the blanks at its two ends
Trimmed(s) ==
    CHOOSE t \in {SubSeq(s, a, b) : a \in 1..(Len(s) + 1), b \in 0..Len(s)} :
        /\ \E a \in 1..(Len(s) + 1), b \in 0..Len(s) :
              /\ t = SubSeq(s, a, b)
              /\ \A i \in 1..Len(s) : (i < a \/ i > b) => s[i] = " "
        /\ t # <<>> => (t[1] # " " /\ t[Len(t)] # " ")

\* C24: a successful add_formula(name, parent_id) appends exactly one node
\* with the trimmed name, the given parent, no children, status INACTIVE and
\* no last_active_time; the node whose id is parent_id gets the new id at
\* the end of its children list; the daily-addition date becomes today; no
\* other node and no progress entry changes; the call returns True and a
\* message holding the trimmed name.
C24_AddFrame ==
    [][(op'.name = "add_formula" /\ op'.ret[1] = TRUE) =>
          \A name \in NameInputs, parent_id \in ParentInputs :
              add_formula(name, parent_id) =>
                  LET n == Newest(formulas')
                  IN /\ Len(formulas') = Len(formulas) + 1
                     /\ n.name = Trimmed(name)
                     /\ n.parent = parent_id
                     /\ n.children = <<>>
                     /\ n.status = INACTIVE
                     /\ n.last_active_time = NoDate
                     /\ n.id \notin ids(formulas)
                     /\ \A i \in 1..Len(formulas) :
                           IF formulas[i].id = parent_id
                           THEN formulas'[i] =
                                   [formulas[i] EXCEPT !.children = Append(@, n.id)]
                           ELSE formulas'[i] = formulas[i]
                     /\ last_addition_date' = today
                     /\ active_tree_progress' = active_tree_progress
                     /\ op'.ret[2] = <<"added", Trimmed(name)>>
                     /\ op'.saved = 1]_vars

\* a name typed with blanks around it was added below a parent that already
\* had a child
C24_Witness ==
    /\ AddSucceeded
    /\ Newest(formulas).name = <<"x">>
    /\ Newest(formulas).parent \in ids(formulas)
    /\ LET p == Node(formulas, Newest(formulas).parent)
       IN /\ Len(p.children) >= 2
          /\ p.children[Len(p.children)] = Newest(formulas).id

----------------------------------------------------------------------------
(* Properties of the timestamps and of the shape of the forest *)

\* C25: across every change_formula_status, add, rename, advance and remove
\* call, a node that stays in the forest and has a last_active_time keeps
\* one, never an earlier one; switching a node from ACTIVE to INACTIVE
\* leaves its last_active_time as it was.
C25_ActiveTimeKept ==
    [][\A i \in 1..Len(formulas), j \in 1..Len(formulas') :
          formulas'[j].id = formulas[i].id =>
              LET f == formulas[i]
                  g == formulas'[j]
              IN /\ f.last_active_time # NoDate =>
                       /\ g.last_active_time # NoDate
                       /\ \/ g.last_active_time = f.last_active_time
                          \/ DayOf(g.last_active_time) > DayOf(f.last_active_time)
                 /\ (f.status = ACTIVE /\ g.status = INACTIVE) =>
                       g.last_active_time = f.last_active_time]_vars

\* a node switched on on the first day was switched off on a later day and
\* still carries the first day
C25_Witness ==
    /\ op.name = "change_formula_status" /\ op.ret = TRUE
    /\ today > Day0
    /\ \E i \in 1..Len(formulas) :
          /\ formulas[i].status = INACTIVE
          /\ formulas[i].last_active_time = isoformat(Day0)

\* C27: in every state reached by add, remove, rename, toggle and advance
\* calls with any arguments, every node has parent None or a parent id that
\* names a node of the forest, and the parent links of every node lead to
\* a root.
C27_WellFormedForest ==
    \A i \in 1..Len(formulas) :
        \/ formulas[i].parent = None
        \/ /\ formulas[i].parent \in ids(formulas)
           /\ \E k \in 1..Len(formulas) :
                 /\ formulas[k].parent = None
                 /\ Dist(formulas, i, formulas[k].id, Len(formulas)) > 0

\* C28: in every state reached by add, toggle, rename and advance calls,
\* every tracked root r has 0 <= progress[r] <= depth of the tree below r,
\* and get_nodes_at_level(r, progress[r]) is not empty.
C28_CursorInsideTree ==
    \A r \in DOMAIN active_tree_progress :
        /\ IsRoot(formulas, r)
        /\ 0 <= active_tree_progress[r]
        /\ active_tree_progress[r] <= Depth(formulas, r)
        /\ get_nodes_at_level(formulas, r, active_tree_progress[r]) # <<>>

\* the cursor of root 1 stands on a tier that add_formula made below the
\* deepest tier of the seed
C28_Witness ==
    /\ op.name = "execute_next_level"
    /\ 1 \in DOMAIN active_tree_progress
    /\ active_tree_progress[1] = 3
    /\ Depth(formulas, 1) = 3
    /\ get_nodes_at_level(formulas, 1, 3)[1].id = top_given

----------------------------------------------------------------------------
(* Properties of the singleton, of the first run and of the formula window *)

\* C22: get_manager always returns the same single engine; the callback
\* passed on the first call is the one the engine uses, and no later call
\* changes the engine's callback.
C22_CallbackFixedAtCreation ==
    [][\A callback \in CallbackInputs :
          (op'.name = "get_manager" /\ get_manager(callback)) =>
              /\ op'.ret = _instance'
              /\ _instance = None => data_callback' = callback
              /\ _instance # None =>
                    /\ _instance' = _instance
                    /\ data_callback' = data_callback]_vars

\* C23: on a first run the forest held by the engine after
\* ChainDelayProtocol is constructed is the seeded tree of four nodes (A
\* with the children B and C, B with the child D), not an empty forest.
C23_FirstRunShowsSeed ==
    [][ChainDelayProtocol =>
          /\ formulas' # <<>>
          /\ formulas' = _load_default_formulas]_vars

\* C26: when a row of an existing node is selected and the deletion dialog
\* is confirmed, the node and all its descendants are gone from the forest
\* when the success message is shown: the node count has decreased by the
\* size of the subtree.
C26_DeleteRemovesSubtree ==
    [][\A selected_item \in ids(formulas) :
          (messagebox'[1] = "showinfo" /\ remove_formula_action(selected_item, TRUE)) =>
              /\ ids(formulas') = ids(formulas) \ Closure(formulas, selected_item)
              /\ Len(formulas') = Len(formulas) - Cardinality(Closure(formulas, selected_item))]_vars

----------------------------------------------------------------------------
(* Properties of the chain protocol under every interleaving *)

\* C29: reservation_active and task_active are never both true;
\* start_reservation called while either flag is true returns False and
\* changes nothing, and start_task called while a task is active changes
\* nothing.
C29_FlagsExclusive ==
    /\ [](~(reservation_active /\ task_active))
    /\ [][\A minutes \in MinuteInputs :
             /\ (start_reservation(minutes) /\ (reservation_active \/ task_active)) =>
                   /\ UNCHANGED protocol
                   /\ op'.name = "start_reservation"
                   /\ op'.ret = FALSE
             /\ (start_task(minutes) /\ task_active) =>
                   /\ UNCHANGED protocol
                   /\ op'.name = "start_task"
                   /\ op'.ret = "None"]_vars

\* a reservation was refused while a task is active and the timer thread of
\* the reservation that the task replaced is still running
C29_Witness ==
    /\ op.name = "start_reservation"
    /\ op.ret = FALSE
    /\ task_active
    /\ \E t \in 2..Len(threads) :
          /\ threads[t].kind = "_reservation_timer"
          /\ threads[t].pc \in {"L110", "L118"}

\* C30: for every task started, the completion effects of complete_task
\* (task_active set to False, the record updated, save_data) are performed
\* at most once, whoever calls complete_task and whenever.
C30_CompletedAtMostOnce ==
    \A n \in 1..Len(completed) :
        /\ completed[n].ended <= 1
        /\ completed[n].saved <= 1

\* a reservation is started: the flag is set and a thread is in
\* _reservation_timer, at its loop or at the test after it
ReservationStarted ==
    /\ reservation_active
    /\ \E t \in 2..Len(threads) : threads[t].pc \in {"L110", "L118", "L123"}

\* a task is started: the flag is set and a thread is in _task_timer, at its
\* loop, at the test after it or in complete_task before line 187 has run
TaskStarted ==
    /\ task_active
    /\ \E t \in 2..Len(threads) : threads[t].pc \in {"L164", "L171", "L176", "L187"}

====
